---- MODULE Spec2Model ----
(***************************************************************************)
(* A model of src/main.py: the SafetySwitchBot cog (a dead man's switch).  *)
(* State: the cog's fields, the heap of WeeklySwitchEvent objects, the     *)
(* YAML file, the two tasks.loop tasks, the position of the alert pass at  *)
(* its await points, and the messages in flight.                           *)
(* Time is counted in seconds since Monday 00:00:00 UTC of the first week. *)
(***************************************************************************)
EXTENDS Integers, Sequences, FiniteSets, TLC

(* ------------------------------ bounds -------------------------------- *)

\* number of weeks the clock runs through
MaxWeeks == 2

\* number of WeeklySwitchEvent objects ever constructed
MaxEvents == 2

(* ------------------------- program constants -------------------------- *)

\* DM_IDs holds three user ids
NumRecipients == 3

\* alert_loop: (now - last_disarm_time).total_minutes() > 60
GraceMinutes == 60

\* on_message: (event_datetime - now).total_minutes() <= 30
WindowMinutes == 30

\* self.last_disarm_time = None
None == -1

(* ------------------------------- time --------------------------------- *)

\* seconds from Monday 00:00:00 to the given day (0 = Monday), hour, minute, second
At(day, hh, mm, ss) == ((day * 24 + hh) * 60 + mm) * 60 + ss

SecondsPerMinute == At(0, 0, 1, 0)
SecondsPerDay == At(1, 0, 0, 0)
SecondsPerWeek == At(7, 0, 0, 0)

\* the instants at which something happens in the model: Monday 08:00, 08:30
\* and 09:00:20, Sunday 23:50 and the Monday 00:10 after it
WeekInstants ==
    { At(0, 8, 0, 0), At(0, 8, 30, 0), At(0, 9, 0, 20), At(6, 23, 50, 0), At(7, 0, 10, 0) }

\* the later weeks are visited at the occurrence of Monday 09:00 only
Instants ==
    WeekInstants \cup { w * SecondsPerWeek + At(0, 9, 0, 20) : w \in 1 .. (MaxWeeks - 1) }

FirstInstant == CHOOSE t \in Instants : \A u \in Instants : t <= u

WeekdayNames ==
    << "Monday", "Tuesday", "Wednesday", "Thursday", "Friday", "Saturday", "Sunday" >>

\* now.format("dddd")
DayName(t) == WeekdayNames[((t \div SecondsPerDay) % 7) + 1]

\* now.time(), as seconds since midnight
TimeOfDay(t) == t % SecondsPerDay

\* now.start_of('minute')
StartOfMinute(t) == t - (t % SecondsPerMinute)

\* the strings given to add_event as time_of_day; the last one is no time
TimeStrings == { "09:00", "00:10", "soon" }

ParseError == -1

\* pendulum.parse(event.time_of_day, tz="UTC").time(), as seconds since
\* midnight; ParseError where pendulum raises ParserError
ParseTime(s) ==
    CASE s = "09:00" -> At(0, 9, 0, 0)
      [] s = "00:10" -> At(0, 0, 10, 0)
      [] OTHER -> ParseError

\* the (day_of_week, time_of_day) arguments the commands are given
EventArgs == { << "Monday", "09:00" >>, << "Monday", "00:10" >>, << "Monday", "soon" >> }

(* --------------------------- WeeklySwitchEvent ------------------------ *)

\* The dataclass has two fields; armed and triggered_this_week carry no
\* annotation, so they are class attributes.  An object is modelled by its
\* instance __dict__.
WeeklySwitchEvent(time_of_day, day_of_week) ==
    [ time_of_day |-> time_of_day, day_of_week |-> day_of_week ]

\* event.triggered_this_week: the instance attribute if set, else the class
\* attribute (False)
Triggered(e) ==
    IF "triggered_this_week" \in DOMAIN e THEN e["triggered_this_week"] ELSE FALSE

\* event.triggered_this_week = True
SetTriggered(e) ==
    [ k \in (DOMAIN e) \cup { "triggered_this_week" } |->
        IF k = "triggered_this_week" THEN TRUE ELSE e[k] ]

DataclassFields == { "time_of_day", "day_of_week" }

(* ------------------------------ storage ------------------------------- *)

\* weekly_events.yaml: whether it exists, whether yaml.safe_load gives a
\* sequence of mappings, and the mappings
NoFile == [ exists |-> FALSE, sequence |-> FALSE, data |-> << >> ]

\* (faulty variant of YamlDump) the list is saved before the last event is appended
YamlDumpStale(heap, list) ==
    [ exists |-> TRUE, sequence |-> TRUE,
      data |-> [ i \in 1 .. Len(list) - 1 |-> heap[list[i]] ] ]

\* yaml.dump([event.__dict__ for event in self.weekly_events], file)
YamlDump(heap, list) ==
    [ exists |-> TRUE, sequence |-> TRUE,
      data |-> [ i \in 1 .. Len(list) |-> heap[list[i]] ] ]

\* (faulty variant of load_events_from_yaml) a record the constructor
\* rejects is skipped and the others are kept
load_events_lenient(file) ==
    IF ~file.exists \/ ~file.sequence THEN << >>
    ELSE LET good == SelectSeq(file.data, LAMBDA r : DOMAIN r = DataclassFields)
         IN [ i \in 1 .. Len(good) |->
                WeeklySwitchEvent(good[i]["time_of_day"], good[i]["day_of_week"]) ]

\* load_events_from_yaml: the list of objects built from the file.  A missing
\* file gives [] (FileNotFoundError); so does a document that is not a
\* sequence of mappings (the comprehension or the ** raises TypeError, or
\* there is nothing to iterate), and so does a record WeeklySwitchEvent(**event)
\* rejects (TypeError on a key that is no field, or on a missing field):
\* except Exception returns [], whatever was built before.
load_events_from_yaml(file) ==
    IF ~file.exists THEN << >>
    ELSE IF ~file.sequence THEN << >>
    ELSE IF \E i \in 1 .. Len(file.data) : DOMAIN file.data[i] # DataclassFields
         THEN << >>
         ELSE [ i \in 1 .. Len(file.data) |->
                  WeeklySwitchEvent(file.data[i]["time_of_day"], file.data[i]["day_of_week"]) ]

\* the (day_of_week, time_of_day) pairs of a sequence of objects or records
PairsOf(recs) ==
    [ i \in 1 .. Len(recs) |-> << recs[i]["day_of_week"], recs[i]["time_of_day"] >> ]

(* ------------------------------- state -------------------------------- *)

VARIABLES
    clock,             \* pendulum.now("UTC")
    objs,              \* the WeeklySwitchEvent objects constructed so far, by identity
    weekly_events,     \* self.weekly_events: a list of object identities
    last_disarm_time,  \* self.last_disarm_time
    storage,           \* weekly_events.yaml
    statusRunning,     \* self.status_update_loop.is_running()
    alertRunning,      \* self.alert_loop.is_running()
    statusPending,     \* restart() has cancelled the task of status_update_loop
                       \* and its restart_when_over has not run yet
    alertPending,      \* the same for alert_loop
    alertPc,           \* where the alert_loop body is: idle (the task sleeps),
                       \* broadcast / fetch / send (suspended in that await), done
    iterList,          \* the list object the for loop of the pass iterates
    iterShared,        \* whether that object is still self.weekly_events
    iterIdx,           \* the position of the for loop
    recip,             \* the position of the loop over DM_IDs
    passNow,           \* now of the pass (start of the minute)
    tickLdt,           \* last_disarm_time when the pass started
    due,               \* the events that were due when the pass started
    sent,              \* messages delivered by the pass, per event: 0 the
                       \* broadcast, r the direct message to recipient r
    tried,             \* notification steps the pass began, per event: 0 the
                       \* channel lookup, r the lookup of recipient r
    firedAt,           \* per object, now of the pass that set triggered_this_week
    resetPc,           \* where reset_switch is: idle, or send (in its ctx.send)
    reply,             \* the message the last handler step sent
    posted             \* the bot's confirmation is in the check-in channel and
                       \* its on_message has not run yet

vars ==
    << clock, objs, weekly_events, last_disarm_time, storage, statusRunning,
       alertRunning, statusPending, alertPending, alertPc, iterList, iterShared,
       iterIdx, recip, passNow, tickLdt, due, sent, tried, firedAt, resetPc, reply,
       posted >>

\* the state of the two tasks.loop objects
loopVars == << statusRunning, alertRunning, statusPending, alertPending >>

passVars ==
    << alertPc, iterList, iterShared, iterIdx, recip, passNow, tickLdt, due, sent, tried >>

Ids == 1 .. MaxEvents

Zero == [ id \in Ids |-> [ k \in 0 .. NumRecipients |-> 0 ] ]

Bump(f, id, k) == [ f EXCEPT ![id][k] = @ + 1 ]

Reply(text, day_of_week, time_of_day, listing) ==
    [ text |-> text, day_of_week |-> day_of_week, time_of_day |-> time_of_day,
      listing |-> listing ]

NoReply == Reply("", "", "", << >>)

\* No handler is inside the await of its reply, the pass is not inside
\* user.send, and the body of alert_loop has not just returned.  The await of
\* the reply is the last statement of a handler; the pass reads nothing
\* between fetch_user and user.send, so what runs during user.send has the
\* effect it has during the fetch_user before it; nothing follows the
\* return of the body.  The model lets the send end (reply_sent, send_done)
\* and the task go to sleep (alert_sleep) before the next step is taken.
\* The bot's own confirmation is handled (and ignored) by on_message before
\* the next step as well.
Still == reply = NoReply /\ ~posted /\ alertPc \notin { "send", "done" }

\* Still, and no restart of a loop is under way.  Between restart() and the
\* new task only the handlers that read is_running() are interleaved
\* (on_ready, reset_switch): every other step neither reads nor writes what
\* the restart does.
Quiet == Still /\ ~statusPending /\ ~alertPending

\* Quiet, and reset_switch is not suspended in its ctx.send.  Up to that
\* await reset_switch reads and writes nothing, so a handler that runs
\* during the await does what it does right before the reset command; the
\* steps of the alert loop are the ones interleaved with the await.
Calm == Quiet /\ resetPc = "idle"

\* Calm, and no pass is suspended.  list_events, status and
\* status_update_loop write nothing, and what they read
\* (self.weekly_events, the two fields of its events) no step of a pass
\* writes: run in between, they do what they do before.
AtRest == Calm /\ alertPc = "idle"

\* the objects of a list, in order
Objects(heap, list) == [ i \in 1 .. Len(list) |-> heap[list[i]] ]

\* the identities a list holds
Listed(list) == { list[i] : i \in 1 .. Len(list) }

\* what is left of an object no reference holds any more
Freed == WeeklySwitchEvent("", "")

\* the heap once the objects outside live are collected
Collect(heap, live) == [ id \in 1 .. Len(heap) |-> IF id \in live THEN heap[id] ELSE Freed ]

CollectFired(fired, live) == [ id \in Ids |-> IF id \in live THEN fired[id] ELSE None ]

\* SafetySwitchBot.__init__, with no weekly_events.yaml on disk
Init ==
    /\ clock = FirstInstant
    /\ storage = NoFile
    /\ objs = load_events_from_yaml(NoFile)
    /\ weekly_events = << >>
    /\ last_disarm_time = None
    /\ statusRunning = FALSE
    /\ alertRunning = FALSE
    /\ statusPending = FALSE
    /\ alertPending = FALSE
    /\ alertPc = "idle"
    /\ iterList = << >>
    /\ iterShared = FALSE
    /\ iterIdx = 0
    /\ recip = 0
    /\ passNow = 0
    /\ tickLdt = None
    /\ due = {}
    /\ sent = Zero
    /\ tried = Zero
    /\ firedAt = [ id \in Ids |-> None ]
    /\ resetPc = "idle"
    /\ reply = NoReply
    /\ posted = FALSE

\* the alert task is not inside a pass: nothing of a pass is kept, and the
\* objects only the pass's list held are collected
ClearPass(heap, fired) ==
    /\ objs' = Collect(heap, Listed(weekly_events))
    /\ firedAt' = CollectFired(fired, Listed(weekly_events))
    /\ alertPc' = "idle"
    /\ iterList' = << >>
    /\ iterShared' = FALSE
    /\ iterIdx' = 0
    /\ recip' = 0
    /\ passNow' = 0
    /\ tickLdt' = None
    /\ due' = {}
    /\ sent' = Zero
    /\ tried' = Zero

(* ------------------------------ the clock ----------------------------- *)

\* time passes to a later instant of the model; an await of a pass or of
\* reset_switch ends, one way or the other, before the next instant
Advance ==
    /\ Quiet
    /\ alertPc = "idle"
    /\ resetPc = "idle"
    /\ \E t \in Instants : t > clock /\ clock' = t
    /\ reply' = NoReply
    /\ UNCHANGED << objs, weekly_events, last_disarm_time, storage, statusRunning,
                    alertRunning, passVars, firedAt, resetPc,
                    statusPending, alertPending, posted >>

(* ------------------------------ on_ready ------------------------------ *)

\* Loop.start(): a new task runs the loop; a restart_when_over still queued
\* for the old task finds the loop launched and does nothing
Start(running, pending) == [ running |-> TRUE, pending |-> FALSE ]

\* Loop.restart(): if the task is not done it is cancelled and
\* restart_when_over is attached to it; else nothing
Restart(running, pending) ==
    IF running THEN [ running |-> TRUE, pending |-> TRUE ]
    ELSE [ running |-> running, pending |-> pending ]

\* if not loop.is_running(): loop.start()
StartIfStopped(running, pending) ==
    IF ~running THEN Start(running, pending)
    ELSE [ running |-> running, pending |-> pending ]

on_ready ==
    /\ Still
    /\ resetPc = "idle"
    /\ LET st == StartIfStopped(statusRunning, statusPending)
           al == StartIfStopped(alertRunning, alertPending)
       IN /\ statusRunning' = st.running
          /\ statusPending' = st.pending
          /\ alertRunning' = al.running
          /\ alertPending' = al.pending
    /\ reply' = NoReply
    /\ UNCHANGED << clock, objs, weekly_events, last_disarm_time, storage, passVars,
                    firedAt, resetPc,
                    posted >>

(* ------------------------- the command surface ------------------------ *)

\* add_event: construct, append, save, reply
add_event(day_of_week, time_of_day) ==
    /\ Calm
    /\ Len(objs) < MaxEvents
    /\ LET id == Len(objs) + 1
       IN /\ objs' = Append(objs, WeeklySwitchEvent(time_of_day, day_of_week))
          /\ weekly_events' = Append(weekly_events, id)
          \* the append is in place: a pass iterating this list object sees it
          /\ iterList' = IF iterShared THEN Append(iterList, id) ELSE iterList
          /\ storage' = YamlDump(objs', weekly_events')
    /\ reply' = Reply("added", day_of_week, time_of_day, << >>)
    /\ UNCHANGED << clock, last_disarm_time, statusRunning, alertRunning, alertPc,
                    iterShared, iterIdx, recip, passNow, tickLdt, due, sent, tried,
                    firedAt, resetPc,
                    statusPending, alertPending, posted >>

\* (faulty variant of Kept) only the first matching event is removed
KeptAfterFirst(heap, list, day_of_week, time_of_day) ==
    LET hits == { i \in 1 .. Len(list) :
                    heap[list[i]]["day_of_week"] = day_of_week
                    /\ heap[list[i]]["time_of_day"] = time_of_day }
    IN IF hits = {} THEN list
       ELSE LET first == CHOOSE i \in hits : \A j \in hits : i <= j
            IN SubSeq(list, 1, first - 1) \o SubSeq(list, first + 1, Len(list))

\* the list comprehension of remove_event
Kept(heap, list, day_of_week, time_of_day) ==
    SelectSeq(list, LAMBDA id :
        ~(heap[id]["day_of_week"] = day_of_week /\ heap[id]["time_of_day"] = time_of_day))

\* remove_event: rebind self.weekly_events to the filtered list; save and
\* confirm if the length changed, else reply that nothing was found.  A
\* remove_event that finds nothing writes only the binding of the list, and
\* that only matters to a pass that iterates the list: where no pass does, it
\* is taken at rest (as list_events is).
remove_event(day_of_week, time_of_day) ==
    /\ Calm
    /\ \/ AtRest
       \/ iterShared
       \/ Kept(objs, weekly_events, day_of_week, time_of_day) # weekly_events
    /\ weekly_events' = Kept(objs, weekly_events, day_of_week, time_of_day)
    /\ iterShared' = FALSE
    /\ objs' = Collect(objs, Listed(weekly_events') \cup Listed(iterList))
    /\ firedAt' = CollectFired(firedAt, Listed(weekly_events') \cup Listed(iterList))
    /\ IF Len(weekly_events') = Len(weekly_events)
       THEN /\ reply' = Reply("not found", day_of_week, time_of_day, << >>)
            /\ storage' = storage
       ELSE /\ storage' = YamlDump(objs, weekly_events')
            /\ reply' = Reply("removed", day_of_week, time_of_day, << >>)
    /\ UNCHANGED << clock, last_disarm_time, statusRunning, alertRunning, alertPc,
                    iterList, iterIdx, recip, passNow, tickLdt, due, sent, tried,
                    resetPc,
                    statusPending, alertPending, posted >>

\* list_events
list_events ==
    /\ AtRest
    /\ reply' = IF weekly_events = << >>
                THEN Reply("none scheduled", "", "", << >>)
                ELSE Reply("scheduled", "", "", PairsOf(Objects(objs, weekly_events)))
    /\ UNCHANGED << clock, objs, weekly_events, last_disarm_time, storage, statusRunning,
                    alertRunning, passVars, firedAt, resetPc,
                    statusPending, alertPending, posted >>

\* status
status ==
    /\ AtRest
    /\ reply' = Reply("active", "", "", << >>)
    /\ UNCHANGED << clock, objs, weekly_events, last_disarm_time, storage, statusRunning,
                    alertRunning, passVars, firedAt, resetPc,
                    statusPending, alertPending, posted >>

\* reset_switch up to its first await: ctx.send of the confirmation
reset_send ==
    /\ Still
    /\ resetPc = "idle"
    /\ resetPc' = "send"
    /\ reply' = NoReply
    /\ UNCHANGED << clock, objs, weekly_events, last_disarm_time, storage, statusRunning,
                    alertRunning, passVars, firedAt,
                    statusPending, alertPending, posted >>

\* (faulty variant of StartOrRestart) restart() is called whether or not the
\* loop is running
RestartAlways(running, pending) == Restart(running, pending)

\* if loop.is_running(): loop.restart() else: loop.start()
StartOrRestart(running, pending) ==
    IF running THEN Restart(running, pending) ELSE Start(running, pending)

\* the task restart() cancelled ends (is_running() is False from here) ...
loop_cancelled(loop) ==
    /\ Still
    /\ IF loop = "status"
       THEN /\ statusRunning /\ statusPending
            /\ statusRunning' = FALSE
            /\ UNCHANGED << alertRunning, statusPending, alertPending >>
       ELSE /\ alertRunning /\ alertPending
            /\ alertRunning' = FALSE
            /\ UNCHANGED << statusRunning, statusPending, alertPending >>
    /\ reply' = NoReply
    /\ UNCHANGED << clock, objs, weekly_events, last_disarm_time, storage, passVars,
                    firedAt, resetPc, posted >>

\* ... and its done callback restart_when_over starts the loop again
restart_when_over(loop) ==
    /\ Still
    /\ IF loop = "status"
       THEN /\ ~statusRunning /\ statusPending
            /\ statusRunning' = Start(statusRunning, statusPending).running
            /\ statusPending' = Start(statusRunning, statusPending).pending
            /\ UNCHANGED << alertRunning, alertPending >>
       ELSE /\ ~alertRunning /\ alertPending
            /\ alertRunning' = Start(alertRunning, alertPending).running
            /\ alertPending' = Start(alertRunning, alertPending).pending
            /\ UNCHANGED << statusRunning, statusPending >>
    /\ reply' = NoReply
    /\ UNCHANGED << clock, objs, weekly_events, last_disarm_time, storage, passVars,
                    firedAt, resetPc, posted >>

\* reset_switch after ctx.send: start or restart both loops (restart cancels
\* the task, also inside a pass, and a new task is started), then set
\* last_disarm_time.  If ctx.send raised, the handler ends there.
reset_switch(ok) ==
    /\ Still
    /\ resetPc = "send"
    /\ resetPc' = "idle"
    /\ reply' = NoReply
    /\ IF ok
       THEN /\ LET st == StartOrRestart(statusRunning, statusPending)
                   al == StartOrRestart(alertRunning, alertPending)
               IN /\ statusRunning' = st.running
                  /\ statusPending' = st.pending
                  /\ alertRunning' = al.running
                  /\ alertPending' = al.pending
            /\ ClearPass(objs, firedAt)
            /\ last_disarm_time' = clock
       ELSE UNCHANGED << loopVars, passVars, last_disarm_time, objs, firedAt >>
    /\ UNCHANGED << clock, weekly_events, storage,
                    posted >>

(* ----------------------------- on_message ----------------------------- *)

\* the condition of on_message on one event (the event's time is parsed first)
InWindow(e, now) ==
    /\ e["day_of_week"] = DayName(now)
    /\ ParseTime(e["time_of_day"]) - TimeOfDay(now) <= WindowMinutes * SecondsPerMinute

\* the for loop of on_message from position i: "match" at the first event in
\* the window, "raise" at an event whose time does not parse, else "none"
RECURSIVE FirstMatch(_, _, _, _)
FirstMatch(heap, list, i, now) ==
    IF i > Len(list) THEN "none"
    ELSE IF ParseTime(heap[list[i]]["time_of_day"]) = ParseError THEN "raise"
    ELSE IF InWindow(heap[list[i]], now) THEN "match"
    ELSE FirstMatch(heap, list, i + 1, now)

\* whether the for loop of on_message records a disarm for a user's message at now
Disarms(heap, list, now) == FirstMatch(heap, list, 1, now) = "match"

\* (faulty variant of FromSelf) the author is not looked at
FromNobody(author) == FALSE

\* message.author == self.bot.user
FromSelf(author) == author = "bot"

\* on_message for a message of the check-in channel: a user's, or the bot's
\* own confirmation once it is posted there
on_message(author) ==
    /\ IF author = "bot" THEN posted /\ reply = NoReply ELSE Calm
    /\ posted' = FALSE
    /\ IF ~FromSelf(author) /\ Disarms(objs, weekly_events, clock)
       THEN /\ last_disarm_time' = clock
            /\ reply' = Reply("disarmed", "", "", << >>)
       ELSE /\ reply' = NoReply
            /\ last_disarm_time' = last_disarm_time
    /\ UNCHANGED << clock, objs, weekly_events, storage, statusRunning, alertRunning,
                    passVars, firedAt, resetPc,
                    statusPending, alertPending >>

(* -------------------------- status_update_loop ------------------------ *)

\* (faulty variant of status_update_loop) an error of the send leaves the body
status_update_loopUncaught(chan, ok) ==
    /\ AtRest
    /\ statusRunning
    /\ chan \/ ok
    /\ reply' = IF chan /\ ok THEN Reply("status update", "", "", << >>) ELSE NoReply
    /\ statusRunning' = (chan => ok)
    /\ UNCHANGED << clock, objs, weekly_events, last_disarm_time, storage, alertRunning,
                    statusPending, alertPending, passVars, firedAt, resetPc, posted >>

\* a tick of tasks.loop(seconds=3600): the status channel is looked up and
\* the update sent to it; a missing channel (chan false, nothing is sent)
\* and an error of the send (ok false) are logged
status_update_loop(chan, ok) ==
    /\ AtRest
    /\ statusRunning
    /\ chan \/ ok
    /\ reply' = IF chan /\ ok THEN Reply("status update", "", "", << >>) ELSE NoReply
    /\ UNCHANGED << clock, objs, weekly_events, last_disarm_time, storage, loopVars,
                    passVars, firedAt, resetPc, posted >>

(* ----------------------------- alert_loop ----------------------------- *)

\* (faulty variant of IsDue) the triggered_this_week flag is not read
IsDueIgnoringFlag(e, now) ==
    /\ DayName(now) = e["day_of_week"]
    /\ TimeOfDay(now) = ParseTime(e["time_of_day"])

\* if (current_day == event.day_of_week and current_time == event_time
\*     and not event.triggered_this_week)
IsDue(e, now) ==
    /\ DayName(now) = e["day_of_week"]
    /\ TimeOfDay(now) = ParseTime(e["time_of_day"])
    /\ ~Triggered(e)

\* (faulty variant of Undisarmed) a disarm exactly 60 minutes old no longer counts
UndisarmedFromSixty(now, ldt) ==
    ldt = None \/ now - ldt >= GraceMinutes * SecondsPerMinute

\* if self.last_disarm_time is None or (now - self.last_disarm_time).total_minutes() > 60
Undisarmed(now, ldt) ==
    ldt = None \/ now - ldt > GraceMinutes * SecondsPerMinute

\* The for loop of alert_loop from position i, run until it suspends or ends:
\* pc "broadcast" at idx when it awaits channel.send for that event, "done"
\* when the list is exhausted, "raised" when pendulum.parse raised (outside
\* the try).  looked: the events for which get_channel was called; chan is
\* what get_channel returns in this run.
RECURSIVE Scan(_, _, _, _, _, _)
Scan(heap, list, i, now, ldt, chan) ==
    IF i > Len(list) THEN [ pc |-> "done", idx |-> 0, looked |-> {} ]
    ELSE IF ParseTime(heap[list[i]]["time_of_day"]) = ParseError
    THEN [ pc |-> "raised", idx |-> i, looked |-> {} ]
    ELSE IF IsDue(heap[list[i]], now) /\ Undisarmed(now, ldt)
    THEN IF chan
         THEN [ pc |-> "broadcast", idx |-> i, looked |-> { list[i] } ]
         ELSE LET r == Scan(heap, list, i + 1, now, ldt, chan)
              IN [ r EXCEPT !.looked = @ \cup { list[i] } ]
    ELSE Scan(heap, list, i + 1, now, ldt, chan)

\* count the channel lookups of a run of the loop
Looked(f, ids) == [ id \in Ids |-> IF id \in ids THEN Bump(f, id, 0)[id] ELSE f[id] ]

\* The pass goes on from position i of list.  An exception that leaves the
\* body ends the task: tasks.loop re-raises it and the loop is over.
Resume(heap, fired, list, i, now, chan, triedNow) ==
    LET r == Scan(heap, list, i, now, last_disarm_time, chan)
    IN /\ chan \/ r.looked # {}
       /\ IF r.pc = "raised"
          THEN /\ alertRunning' = FALSE
               /\ ClearPass(heap, fired)
          ELSE /\ alertRunning' = alertRunning
               /\ objs' = heap
               /\ firedAt' = fired
               /\ alertPc' = r.pc
               /\ iterIdx' = r.idx
               /\ recip' = 0
               /\ passNow' = now
               /\ iterList' = list
               /\ tried' = Looked(triedNow, r.looked)

\* the events the pass that starts now is to alert: in the list, not
\* triggered, their day and minute are now's, and no disarm in the last 60 minutes
DueAt(heap, list, now, ldt) ==
    { id \in { list[i] : i \in 1 .. Len(list) } :
        /\ ~Triggered(heap[id])
        /\ heap[id]["day_of_week"] = DayName(now)
        /\ ParseTime(heap[id]["time_of_day"]) = TimeOfDay(now)
        /\ (ldt = None \/ now - ldt > GraceMinutes * SecondsPerMinute) }

\* a tick of tasks.loop(minutes=1): the body of alert_loop up to its first await
alert_loop(chan) ==
    /\ Quiet
    /\ alertRunning
    /\ alertPc = "idle"
    /\ LET now == StartOfMinute(clock)
       IN /\ Resume(objs, firedAt, weekly_events, 1, now, chan, Zero)
          /\ IF alertPc' = "idle"
             THEN TRUE
             ELSE /\ iterShared' = TRUE
                  /\ tickLdt' = last_disarm_time
                  /\ due' = DueAt(objs, weekly_events, now, last_disarm_time)
                  /\ sent' = Zero
    /\ reply' = NoReply
    /\ UNCHANGED << clock, weekly_events, last_disarm_time, storage, statusRunning,
                    resetPc,
                    statusPending, alertPending, posted >>

\* the pass after an await that raised: except Exception logs, the for loop goes on
Caught(chan) ==
    /\ Resume(objs, firedAt, iterList, iterIdx + 1, passNow, chan, tried)
    /\ IF alertPc' = "idle"
       THEN TRUE
       ELSE UNCHANGED << iterShared, tickLdt, due, sent >>

\* await channel.send(alert_message) returns or raises
broadcast_done(ok, chan) ==
    /\ Quiet
    /\ alertPc = "broadcast"
    /\ IF ok
       THEN /\ chan
            /\ sent' = Bump(sent, iterList[iterIdx], 0)
            /\ tried' = Bump(tried, iterList[iterIdx], 1)
            /\ alertPc' = "fetch"
            /\ recip' = 1
            /\ UNCHANGED << objs, firedAt, alertRunning, iterList, iterShared, iterIdx,
                            passNow, tickLdt, due >>
       ELSE Caught(chan)
    /\ reply' = NoReply
    /\ UNCHANGED << clock, weekly_events, last_disarm_time, storage, statusRunning,
                    resetPc,
                    statusPending, alertPending, posted >>

\* user = await self.bot.fetch_user(id) returns or raises
fetch_done(ok, chan) ==
    /\ Quiet
    /\ alertPc = "fetch"
    /\ IF ok
       THEN /\ chan
            /\ alertPc' = "send"
            /\ UNCHANGED << objs, firedAt, alertRunning, iterList, iterShared, iterIdx,
                            recip, passNow, tickLdt, due, sent, tried >>
       ELSE Caught(chan)
    /\ reply' = NoReply
    /\ UNCHANGED << clock, weekly_events, last_disarm_time, storage, statusRunning,
                    resetPc,
                    statusPending, alertPending, posted >>

\* await user.send(alert_message) returns or raises; after the last
\* recipient the event is marked and the for loop goes on
send_done(ok, chan) ==
    /\ alertPc = "send"
    /\ IF ~ok
       THEN Caught(chan)
       ELSE IF recip < NumRecipients
       THEN /\ chan
            /\ sent' = Bump(sent, iterList[iterIdx], recip)
            /\ tried' = Bump(tried, iterList[iterIdx], recip + 1)
            /\ alertPc' = "fetch"
            /\ recip' = recip + 1
            /\ UNCHANGED << objs, firedAt, alertRunning, iterList, iterShared, iterIdx,
                            passNow, tickLdt, due >>
       ELSE /\ Resume([ objs EXCEPT ![iterList[iterIdx]] = SetTriggered(@) ],
                       [ firedAt EXCEPT ![iterList[iterIdx]] = passNow ],
                       iterList, iterIdx + 1, passNow, chan, tried)
            /\ IF alertPc' = "idle"
               THEN TRUE
               ELSE /\ sent' = Bump(sent, iterList[iterIdx], recip)
                    /\ UNCHANGED << iterShared, tickLdt, due >>
    /\ reply' = NoReply
    /\ UNCHANGED << clock, weekly_events, last_disarm_time, storage, statusRunning,
                    resetPc,
                    statusPending, alertPending, posted >>

\* the body of alert_loop has returned: the task sleeps until the next tick
alert_sleep ==
    /\ alertPc = "done"
    /\ ClearPass(objs, firedAt)
    /\ reply' = NoReply
    /\ UNCHANGED << clock, weekly_events, last_disarm_time, storage, statusRunning,
                    alertRunning, resetPc,
                    statusPending, alertPending, posted >>

\* the send of a handler's reply ends; it is the handler's last statement.
\* The confirmation of on_message is then a message of the check-in channel.
reply_sent ==
    /\ reply # NoReply
    /\ reply' = NoReply
    /\ posted' = (reply.text = "disarmed")
    /\ UNCHANGED << clock, objs, weekly_events, last_disarm_time, storage, statusRunning,
                    alertRunning, passVars, firedAt, resetPc,
                    statusPending, alertPending >>

Next ==
    \/ Advance
    \/ on_ready
    \/ \E a \in EventArgs : add_event(a[1], a[2])
    \/ \E a \in EventArgs : remove_event(a[1], a[2])
    \/ list_events
    \/ status
    \/ reset_send
    \/ \E ok \in BOOLEAN : reset_switch(ok)
    \/ \E author \in { "user", "bot" } : on_message(author)
    \/ \E loop \in { "status", "alert" } : loop_cancelled(loop)
    \/ \E loop \in { "status", "alert" } : restart_when_over(loop)
    \/ \E chan, ok \in BOOLEAN : status_update_loop(chan, ok)
    \/ \E chan \in BOOLEAN : alert_loop(chan)
    \/ \E ok, chan \in BOOLEAN : broadcast_done(ok, chan)
    \/ \E ok, chan \in BOOLEAN : fetch_done(ok, chan)
    \/ \E ok, chan \in BOOLEAN : send_done(ok, chan)
    \/ alert_sleep
    \/ reply_sent

Spec == Init /\ [][Next]_vars

(* ------------------------ start-up from a file ------------------------ *)

\* the key sets of the mappings a weekly_events.yaml may hold: the two
\* fields, one of them alone, and the two fields with the flag __dict__
\* carries once it is set
RecordKeys ==
    { { "time_of_day", "day_of_week" }, { "time_of_day" }, { "day_of_week" },
      { "time_of_day", "day_of_week", "triggered_this_week" } }

\* a mapping with these keys for the event (day, time)
Record(keys, day_of_week, time_of_day) ==
    [ k \in keys |-> IF k = "time_of_day" THEN time_of_day
                     ELSE IF k = "day_of_week" THEN day_of_week
                     ELSE TRUE ]

Records == { Record(keys, a[1], a[2]) : keys \in RecordKeys, a \in EventArgs }

\* what open("weekly_events.yaml") and yaml.safe_load may find: no file, a
\* document that is no sequence of mappings, a sequence of up to MaxEvents
\* mappings
Files ==
    { NoFile, [ exists |-> TRUE, sequence |-> FALSE, data |-> << >> ] }
    \cup { [ exists |-> TRUE, sequence |-> TRUE, data |-> d ] :
             d \in UNION { [ 1 .. n -> Records ] : n \in 0 .. MaxEvents } }

\* SafetySwitchBot.__init__ with file on disk: the state after construction
Constructed(file) ==
    /\ storage = file
    /\ objs = load_events_from_yaml(file)
    /\ weekly_events = [ i \in 1 .. Len(objs) |-> i ]
    /\ last_disarm_time = None
    /\ statusRunning = FALSE
    /\ alertRunning = FALSE
    /\ statusPending = FALSE
    /\ alertPending = FALSE
    /\ alertPc = "idle"
    /\ iterList = << >>
    /\ iterShared = FALSE
    /\ iterIdx = 0
    /\ recip = 0
    /\ passNow = 0
    /\ tickLdt = None
    /\ due = {}
    /\ sent = Zero
    /\ tried = Zero
    /\ firedAt = [ id \in Ids |-> None ]
    /\ resetPc = "idle"
    /\ reply = NoReply
    /\ posted = FALSE

LoadInit == clock = FirstInstant /\ \E file \in Files : Constructed(file)

\* the process is stopped, and started again with file on disk
SafetySwitchBot(file) ==
    /\ AtRest
    /\ storage' = file
    /\ objs' = load_events_from_yaml(file)
    /\ weekly_events' = [ i \in 1 .. Len(objs') |-> i ]
    /\ last_disarm_time' = None
    /\ statusRunning' = FALSE
    /\ alertRunning' = FALSE
    /\ firedAt' = [ id \in Ids |-> None ]
    /\ reply' = NoReply
    /\ UNCHANGED << clock, statusPending, alertPending, passVars, resetPc, posted >>

\* the list is shown, as loaded
LoadNext ==
    \/ \E file \in Files : SafetySwitchBot(file)
    \/ list_events
    \/ reply_sent

LoadSpec == LoadInit /\ [][LoadNext]_vars

(* ------------------------------ the claims ---------------------------- *)

AllIds == 1 .. Len(objs)

\* the event's day and minute are those of now
AtOccurrence(e, now) ==
    /\ e["day_of_week"] = DayName(now)
    /\ ParseTime(e["time_of_day"]) = TimeOfDay(now)

\* C1: when a pass has ended, every event that was due at its tick (not
\* triggered, day and minute matching, no disarm in the 60 minutes before)
\* has got exactly one broadcast and exactly one direct message per
\* recipient from this pass, and is marked triggered.
AlertFiring ==
    alertPc = "done" =>
        \A id \in due :
            /\ \A k \in 0 .. NumRecipients : sent[id][k] = 1
            /\ Triggered(objs[id])

\* C2: an event is marked triggered only from the minute it fired until its
\* next occurrence seven days later, when it is pending again.
WeeklyRearming ==
    \A id \in AllIds : Triggered(objs[id]) => clock < firedAt[id] + SecondsPerWeek

\* C3: once an event is marked triggered, no step sends a broadcast or a
\* direct message for it, or begins one (in particular not before its next
\* weekly occurrence): second ticks in the same minute, resets, disarms and
\* commands included.
IdempotentWithinWeek ==
    [][ \A id \in AllIds :
          Triggered(objs[id]) =>
              \A k \in 0 .. NumRecipients :
                  sent'[id][k] <= sent[id][k] /\ tried'[id][k] <= tried[id][k] ]_vars

\* C3 witness: a second pass in the minute in which the event fired, with no
\* disarm at all, has ended without a message for it
RetickAfterFiring ==
    /\ alertPc = "done"
    /\ tickLdt = None
    /\ \E id \in Listed(iterList) :
          /\ Triggered(objs[id])
          /\ firedAt[id] = passNow
          /\ AtOccurrence(objs[id], passNow)
          /\ sent[id][0] = 0

\* a pass is under way whose tick found a disarm at most 60 minutes old
PassUnderDisarm(pc, now, ldt) ==
    /\ pc # "idle"
    /\ ldt # None
    /\ now - ldt <= GraceMinutes * SecondsPerMinute

\* C4: in a pass whose tick is at an event's day and minute and finds
\* last_disarm_time set and at most 60 minutes (inclusive) before the tick,
\* no broadcast and no direct message is sent or begun for that event, and
\* the event does not become triggered.
TimelyDisarmSuppresses ==
    [][ \A id \in 1 .. Len(objs') :
          (PassUnderDisarm(alertPc', passNow', tickLdt') /\ AtOccurrence(objs'[id], passNow')) =>
              /\ \A k \in 0 .. NumRecipients :
                    sent'[id][k] <= sent[id][k] /\ tried'[id][k] <= tried[id][k]
              /\ Triggered(objs'[id]) => (id <= Len(objs) /\ Triggered(objs[id])) ]_vars

\* C4 witness: a pass at the event's minute, begun exactly 60 minutes after
\* the disarm, has ended with nothing sent and the event not triggered
DisarmedOccurrencePassed ==
    /\ alertPc = "done"
    /\ tickLdt # None
    /\ passNow - tickLdt = GraceMinutes * SecondsPerMinute
    /\ \E id \in Listed(iterList) :
          /\ AtOccurrence(objs[id], passNow)
          /\ ~Triggered(objs[id])
          /\ \A k \in 0 .. NumRecipients : sent[id][k] = 0 /\ tried[id][k] = 0

\* some event of the list is on now's weekday and at most 30 minutes ahead
\* of now on now's date (or behind it)
SomeEventInWindow ==
    \E id \in Listed(weekly_events) :
        /\ objs[id]["day_of_week"] = DayName(clock)
        /\ ParseTime(objs[id]["time_of_day"]) # ParseError
        /\ ParseTime(objs[id]["time_of_day"]) - TimeOfDay(clock)
             <= WindowMinutes * SecondsPerMinute

\* C5: a user's message in the check-in channel at time T is recorded as a
\* disarm (last_disarm_time = T, one confirmation) if and only if some event
\* of the list is on T's weekday with its time on T's date at most 30
\* minutes after T.
DisarmMatching ==
    Disarms(objs, weekly_events, clock) <=> SomeEventInWindow

\* the weekday's number, Monday 0
DayIndex(name) == (CHOOSE i \in 1 .. 7 : WeekdayNames[i] = name) - 1

\* seconds from t to the event's next occurrence at or after t
UntilOccurrence(e, t) ==
    (At(DayIndex(e["day_of_week"]), 0, 0, 0) + ParseTime(e["time_of_day"])
       + SecondsPerWeek - (t % SecondsPerWeek)) % SecondsPerWeek

\* C6: when every event of the list has a time from 00:00 to 23:59, a user's
\* message that arrives at most 30 minutes before the scheduled occurrence
\* of one of them is recorded as a disarm.
EndToEndDisarm ==
    ( /\ \A id \in Listed(weekly_events) : ParseTime(objs[id]["time_of_day"]) # ParseError
      /\ \E id \in Listed(weekly_events) :
            UntilOccurrence(objs[id], clock) <= WindowMinutes * SecondsPerMinute )
    => Disarms(objs, weekly_events, clock)

\* C7: saving the list and loading it again gives the same (day, time) pairs
\* in the same order, and every record of the file has exactly the two
\* fields time_of_day and day_of_week.
SaveLoadRoundTrip ==
    /\ PairsOf(load_events_from_yaml(YamlDump(objs, weekly_events)))
         = PairsOf(Objects(objs, weekly_events))
    /\ \A i \in 1 .. Len(storage.data) : DOMAIN storage.data[i] = DataclassFields

\* C8: when a pass has ended, every event for which it began the alert (it
\* looked the alerts channel up) has had every recipient attempted and is
\* marked triggered, whatever step failed.
FailureIsolation ==
    alertPc = "done" =>
        \A id \in Ids :
            tried[id][0] >= 1 =>
                /\ \A r \in 1 .. NumRecipients : tried[id][r] >= 1
                /\ Triggered(objs[id])

\* C9: no error of a pass ends the alert loop: once running it stays
\* running, unless restart() has cancelled it to start it again.
AlertLoopSurvives ==
    [][ (alertRunning /\ ~alertPending) => alertRunning' ]_vars

\* the position of an identity in a list without repetitions
Pos(list, id) == CHOOSE i \in 1 .. Len(list) : list[i] = id

AddEventEffect ==
    [][ /\ reply'.text = "added" =>
              LET n == Len(weekly_events)
                  new == weekly_events'[n + 1]
              IN /\ Len(weekly_events') = n + 1
                 /\ SubSeq(weekly_events', 1, n) = weekly_events
                 /\ new \notin Listed(weekly_events)
                 /\ objs'[new] = WeeklySwitchEvent(reply'.time_of_day, reply'.day_of_week)
                 /\ ~Triggered(objs'[new])
                 /\ \A id \in Listed(weekly_events) : objs'[id] = objs[id]
                 /\ storage'.exists
                 /\ PairsOf(storage'.data) = PairsOf(Objects(objs', weekly_events'))
        /\ reply'.text = "removed" =>
              /\ storage'.exists
              /\ PairsOf(storage'.data) = PairsOf(Objects(objs', weekly_events'))
        /\ reply'.text = "scheduled" =>
              reply'.listing = PairsOf(Objects(objs, weekly_events))
        /\ reply'.text = "none scheduled" => weekly_events = << >> ]_vars

\* C11 witness: add_event has appended an event with an arbitrary time
\* string behind an event that is marked triggered
AddedBehindTriggered ==
    /\ reply.text = "added"
    /\ reply.time_of_day = "soon"
    /\ Len(weekly_events) = 2
    /\ Triggered(objs[weekly_events[1]])
    /\ objs[weekly_events[2]]["time_of_day"] = "soon"

HeartbeatIndependence ==
    [][ /\ reply'.text = "status update" =>
              /\ UNCHANGED << weekly_events, objs, last_disarm_time, storage >>
              /\ statusRunning'
        /\ (statusRunning /\ ~statusPending) => statusRunning' ]_vars

\* C13 witness: the status update is sent while the alert loop is dead and
\* the list holds an event whose time does not parse and a triggered one
HeartbeatBesideDeadAlertLoop ==
    /\ reply.text = "status update"
    /\ statusRunning
    /\ ~alertRunning /\ ~alertPending
    /\ \E id \in Listed(weekly_events) : ParseTime(objs[id]["time_of_day"]) = ParseError
    /\ \E id \in Listed(weekly_events) : Triggered(objs[id])

\* two different events of the heap with the same day and time
Duplicates(heap, a, b) ==
    /\ a # b
    /\ heap[a]["day_of_week"] = heap[b]["day_of_week"]
    /\ heap[a]["time_of_day"] = heap[b]["time_of_day"]

\* every lookup and every send the pass began has delivered
NothingFailed(triedNow, sentNow) ==
    \A id \in Ids : \A k \in 0 .. NumRecipients : triedNow[id][k] = sentNow[id][k]

\* C14: when a pass ends in which no lookup and no send failed, and whose
\* tick found two events with the same day and time due and not disarmed,
\* each of the two has got its own broadcast and its own direct message
\* per recipient and is marked triggered; and a step that sets the flag of
\* one event leaves the flag of every other event as it was.
DuplicatesIndependent ==
    [][ /\ (alertPc' = "done" /\ NothingFailed(tried', sent')) =>
              \A a, b \in due' :
                  Duplicates(objs', a, b) =>
                      /\ \A k \in 0 .. NumRecipients : sent'[a][k] = 1 /\ sent'[b][k] = 1
                      /\ Triggered(objs'[a]) /\ Triggered(objs'[b])
        /\ \A a, b \in AllIds :
              (a # b /\ ~Triggered(objs[a]) /\ Triggered(objs'[a]) /\ b \in Listed(weekly_events'))
                  => (Triggered(objs'[b]) <=> Triggered(objs[b])) ]_vars

\* the file is there and is not a sequence of two-field records
Malformed(file) ==
    /\ file.exists
    /\ \/ ~file.sequence
       \/ \E i \in 1 .. Len(file.data) : DOMAIN file.data[i] # DataclassFields

\* C15: after construction from a missing file, and from a file that is
\* not a sequence of records with exactly the two fields, the list in
\* memory is empty (no object is built); from any other file the list
\* holds the file's pairs in the file's order.
LoadingNonFatal ==
    /\ (~storage.exists \/ Malformed(storage)) =>
          weekly_events = << >> /\ objs = << >>
    /\ (storage.exists /\ ~Malformed(storage)) =>
          PairsOf(Objects(objs, weekly_events)) = PairsOf(storage.data)

\* C15 witness: the process has started with an empty list from a file
\* whose first record is good and whose second lacks a field
LoadedFromHalfGoodFile ==
    /\ storage.exists /\ storage.sequence
    /\ Len(storage.data) = 2
    /\ DOMAIN storage.data[1] = DataclassFields
    /\ DOMAIN storage.data[2] = { "time_of_day" }
    /\ weekly_events = << >>
    /\ reply.text = "none scheduled"

\* C16: a disarm that on_message records at time T counts in the grace
\* check of an event's next occurrence (it is at most 60 minutes before it)
\* only if T is within the 30 minutes before that occurrence: a message
\* matched against another event does not suppress this one's alert.
DisarmCancelsOnlyItsOccurrence ==
    [][ reply'.text = "disarmed" =>
          \A id \in Listed(weekly_events) :
              ( /\ ParseTime(objs[id]["time_of_day"]) # ParseError
                /\ ~Triggered(objs[id])
                /\ ~Undisarmed(clock + UntilOccurrence(objs[id], clock), last_disarm_time') )
              => UntilOccurrence(objs[id], clock) <= WindowMinutes * SecondsPerMinute ]_vars

\* C17: while reset_switch is suspended in the send of its confirmation, no
\* pass finds an event due and not disarmed: no step begins an alert (the
\* channel lookup that follows the grace check) for any event.
ResetAtomic ==
    [][ resetPc = "send" =>
          \A id \in Ids : tried'[id][0] <= tried[id][0] ]_vars

\* C18: a step of a command or message handler (reset_switch, add_event,
\* remove_event, on_message) taken while a pass is suspended between the
\* broadcast for an event and the event's flag leaves that alert in flight:
\* the pass is still at the same event and the same recipient with what it
\* has sent, or the event is marked triggered.
InFlightAlertCompleted ==
    [][ ( /\ alertPc \in { "fetch", "send" }
          /\ \/ resetPc' # resetPc
             \/ reply' # NoReply
             \/ posted' # posted )
        => \/ /\ alertPc' = alertPc
              /\ iterIdx' = iterIdx /\ recip' = recip
              /\ iterList'[iterIdx'] = iterList[iterIdx]
              /\ sent' = sent
           \/ /\ iterList[iterIdx] <= Len(objs')
              /\ Triggered(objs'[iterList[iterIdx]]) ]_vars

\* the events of the list whose time parses
Valid(heap, list) ==
    { id \in Listed(list) : ParseTime(heap[id]["time_of_day"]) # ParseError }

\* C19: whatever else the list holds, a user's message is recorded as a
\* disarm whenever a valid event of the list is in its window, and a tick
\* that finds a valid event due and not disarmed does not end the alert
\* loop before that event's alert is begun.
EventIsolation ==
    [][ /\ (\E id \in Valid(objs, weekly_events) : InWindow(objs[id], clock))
              => Disarms(objs, weekly_events, clock)
        /\ (alertPc = "idle" /\ alertRunning /\ ~alertPending /\ ~alertRunning')
              => DueAt(objs, weekly_events, StartOfMinute(clock), last_disarm_time) = {} ]_vars

\* C20: the step in which on_message handles the bot's own confirmation
\* sends nothing and leaves last_disarm_time as it was, so no further
\* message follows from it; a confirmation appears in the channel only as
\* the reply to a user's message that was recorded as a disarm, and that
\* step sets last_disarm_time once, to the time of the message.
NoDisarmFeedback ==
    [][ /\ (posted /\ ~posted') =>
              reply' = NoReply /\ last_disarm_time' = last_disarm_time
        /\ (~posted /\ posted') => reply.text = "disarmed" /\ reply' = NoReply
        /\ reply'.text = "disarmed" =>
              ~posted /\ reply = NoReply /\ last_disarm_time' = clock ]_vars

\* C20 witness: a user's message has been recorded as a disarm (no reset
\* has ever run), its confirmation has been posted and handled, and the
\* list still has an event in the window of the present time
ConfirmationIgnored ==
    /\ ~posted
    /\ reply = NoReply
    /\ last_disarm_time = clock
    /\ ~statusRunning /\ ~statusPending
    /\ Disarms(objs, weekly_events, clock)

====
